---- MODULE Spec2Model ----
(***************************************************************************)
(* Model of examples/trusty/main.go: a single-session orchestrator that    *)
(* asks a chat backend a question, lets the model request one tool call     *)
(* (trustyReport), performs the HTTP lookup, feeds the result back in a     *)
(* second model turn and asks for a summary in a third one.                 *)
(*                                                                          *)
(* The program is one sequential thread.  It blocks in four places: the     *)
(* three backend.Chat calls and http.Client.Do.  Each action below is the   *)
(* code that runs between two blocking points; Tick is the passage of time  *)
(* while a call is outstanding.                                             *)
(***************************************************************************)
EXTENDS Integers, Sequences, FiniteSets, TLC

VARIABLES
    pc,                  \* position of main: one of the States below
    args,                \* os.Args[1:]
    now,                 \* wall clock, in seconds
    ctxs,                \* the three context.WithTimeout scopes
    messages,            \* main's outer `messages` slice (line 150)
    ctMessages,          \* chatTrustyReport's `messages` parameter (line 99/114)
    sumMessages,         \* the shadowing `messages` of line 190
    ollamaResponse,      \* main's `ollamaResponse` (lines 159, 205)
    ollamaTrustyMessage, \* main's `ollamaTrustyMessage` (line 183)
    lookup,              \* the outstanding http.Client.Do, if any
    lookupResp,          \* what http.Client.Do / io.ReadAll returned
    chatCalls,           \* history: every backend.Chat invocation
    chatReturns,         \* history: what each backend.Chat returned
    lookupCalls,         \* history: every trustyReport invocation
    httpCalls,           \* history: every request handed to client.Do
    stdout,              \* the fmt.Print* calls made so far
    logged,              \* the log.* calls made so far (standard error)
    errKind,             \* kind of the fatal error, "none" while there is none
    exitCode             \* -1 while running, then the process's exit status

vars == <<pc, args, now, ctxs, messages, ctMessages, sumMessages,
          ollamaResponse, ollamaTrustyMessage, lookup, lookupResp,
          chatCalls, chatReturns, lookupCalls, httpCalls,
          stdout, logged, errKind, exitCode>>

-----------------------------------------------------------------------------
(* Bounds of the model *)

\* One step of the clock, in seconds.
TickStep == 15

\* The longest time a lookup is followed before the clock stops mattering.
MaxLookupTime == 45

\* The most tool calls a modelled first-turn reply carries.
MaxToolCalls == 2

-----------------------------------------------------------------------------
(* Program constants *)

\* 30*time.Second, the duration of every context.WithTimeout.
Duration == 30

States == {"INIT", "AWAITING_FIRST_REPLY", "DIRECT_ANSWER", "TOOL_REQUESTED",
           "AWAITING_TOOL_RESULT", "AWAITING_SUMMARY_REPLY", "DONE", "FAILED"}

Terminal == {"DIRECT_ANSWER", "DONE", "FAILED"}

\* trustyTool, the descriptor handed to the backend.
trustyTool ==
    [type |-> "function",
     function |-> [name |-> "trustyReport",
                   description |-> "Evaluate the trustworthiness of a package",
                   required |-> <<"package_name", "ecosystem">>]]

promptBase == " You are to help a user with selecting a dependency. [...] The user says: "

summaryInstruction == "Summarize the previous response in a single short paragraph. [...]"

-----------------------------------------------------------------------------
(* Values the environment can supply *)

\* os.Args[1:], the free-text query.
UserPrompts == {<<"is", "left-pad", "safe">>, <<>>}

\* Reply contents the chat backend may produce.
Contents == {"looks fine", "use left-pad"}

\* A JSON value of a tool call's argument map, with its dynamic Go type.
StringValue(s) == [type |-> "string", val |-> s]

NumberValue(s) == [type |-> "float64", val |-> s]

BoolValue(s) == [type |-> "bool", val |-> s]

\* Strings holding an ASCII control character (here a tab).
CtlStrings == {"left\tpad"}

\* Argument maps a tool call may carry: well typed, a package name that no
\* URL can hold, a missing key, and a wrongly typed value.
ArgumentMaps ==
    { [package_name |-> StringValue("left-pad"), ecosystem |-> StringValue("npm")],
      [package_name |-> StringValue("left\tpad"), ecosystem |-> StringValue("npm")],
      [ecosystem |-> StringValue("npm")],
      [package_name |-> StringValue("left-pad")],
      [package_name |-> NumberValue("42"), ecosystem |-> StringValue("npm")],
      [package_name |-> StringValue("left-pad"), ecosystem |-> BoolValue("true")] }

\* backend.OllamaToolCall values: {Function: {Name, Arguments}}.
ToolCallOf(name, arguments) == [function |-> [name |-> name, arguments |-> arguments]]

ToolCalls ==
    { ToolCallOf("trustyReport", a) : a \in ArgumentMaps }
    \cup { ToolCallOf("otherTool", [package_name |-> StringValue("left-pad"),
                                    ecosystem |-> StringValue("npm")]) }

RECURSIVE SeqsUpTo(_, _)
SeqsUpTo(S, n) ==
    IF n = 0 THEN {<<>>}
    ELSE LET shorter == SeqsUpTo(S, n - 1)
         IN  shorter \cup { Append(q, e) : q \in {r \in shorter : Len(r) = n - 1}, e \in S }

\* backend.OllamaResponseMessage values.
ReplyOf(content, toolCalls) ==
    [role |-> "assistant", content |-> content, tool_calls |-> toolCalls]

\* Replies to the first turn, on which the tool is offered.
FirstReplies == { ReplyOf(c, t) : c \in Contents, t \in SeqsUpTo(ToolCalls, MaxToolCalls) }

\* Replies to the second and third turns: with or without a tool call.
LaterReplies ==
    { ReplyOf(c, t) : c \in Contents,
                      t \in {<<>>, <<ToolCallOf("trustyReport",
                                        [package_name |-> StringValue("left-pad"),
                                         ecosystem |-> StringValue("npm")])>>} }

\* The zero value of a response, held before a turn has returned or after it failed.
NoMessage == [role |-> "", content |-> "", tool_calls |-> <<>>]

\* HTTP status codes the report endpoint may answer with.
Statuses == {200, 404}

\* Response bodies the report endpoint may send.
Bodies == { "{\"score\":0.9}",
            "{ \"score\" : 0.9,\t\"name\" : \"left-pad\" }",
            "{\"error\":\"not found\"}",
            "<html>Bad Gateway</html>",
            "[0.9]",
            "null" }

-----------------------------------------------------------------------------
(* Pure functions of the program *)

\* strings.Join(elems, sep)
RECURSIVE Join(_, _)
Join(elems, sep) ==
    IF Len(elems) = 0 THEN ""
    ELSE IF Len(elems) = 1 THEN elems[1]
    ELSE elems[1] \o sep \o Join(Tail(elems), sep)

\* prompt := promptBase + " " + strings.Join(userPrompt, " ")
Prompt(userPrompt) == promptBase \o " " \o Join(userPrompt, " ")

\* A message map as the program builds it: role, content and, for a model's
\* reply, the tool calls it carries.
MessageOf(role, content) == [role |-> role, content |-> content, tool_calls |-> <<>>]

\* A variant of responseAsMap that keeps the role and the content only.
responseAsMapWithoutCalls(resp) ==
    [role |-> resp.role, content |-> resp.content, tool_calls |-> <<>>]

\* responseAsMap: the reply's fields, through JSON, as a generic map.
responseAsMap(resp) ==
    [role |-> resp.role, content |-> resp.content, tool_calls |-> resp.tool_calls]

\* A variant of SelectedCall that takes the last tool call of the reply.
SelectedCallLast(toolCalls) == toolCalls[Len(toolCalls)]

\* The tool call main acts upon: ToolCalls[0].
SelectedCall(toolCalls) == toolCalls[1]

\* A variant of IsRegistered with the else branch of line 213 lost: any tool
\* name is handled as trustyReport.
IsRegisteredAnyName(funcName) == TRUE

\* funcName == "trustyReport"
IsRegistered(funcName) == funcName = trustyTool.function.name

\* A variant of AssertString that reads package_name whatever key is asked for.
AssertStringSameKey(arguments, key) ==
    IF "package_name" \in DOMAIN arguments /\ arguments["package_name"].type = "string"
    THEN [ok |-> TRUE, val |-> arguments["package_name"].val]
    ELSE [ok |-> FALSE, val |-> ""]

\* A variant of AssertString that formats whatever it finds and never
\* reports a miss.
AssertStringUnchecked(arguments, key) ==
    IF key \in DOMAIN arguments
    THEN [ok |-> TRUE, val |-> arguments[key].val]
    ELSE [ok |-> TRUE, val |-> ""]

\* call.Arguments[key].(string): the two-value type assertion.  A missing key
\* yields the nil interface, which is no string.
AssertString(arguments, key) ==
    IF key \in DOMAIN arguments /\ arguments[key].type = "string"
    THEN [ok |-> TRUE, val |-> arguments[key].val]
    ELSE [ok |-> FALSE, val |-> ""]

\* fmt.Sprintf of the report URL: the two values are pasted in unescaped.
ReportURL(packageName, ecosystem) ==
    "https://api.trustypkg.dev/v1/report?package_name=" \o packageName
        \o "&package_type=" \o ecosystem

\* http.NewRequest fails when the URL does not parse; net/url rejects any URL
\* holding an ASCII control character.
NewRequestFails(packageName, ecosystem) ==
    packageName \in CtlStrings \/ ecosystem \in CtlStrings

\* A variant of Unmarshal whose error is dropped: text that does not decode
\* leaves the map nil.
UnmarshalErrorDropped(body) ==
    CASE body = "{\"score\":0.9}" ->
            [err |-> FALSE, isNil |-> FALSE, members |-> [score |-> "0.9"]]
      [] body = "{ \"score\" : 0.9,\t\"name\" : \"left-pad\" }" ->
            [err |-> FALSE, isNil |-> FALSE,
             members |-> [score |-> "0.9", name |-> "\"left-pad\""]]
      [] body = "{\"error\":\"not found\"}" ->
            [err |-> FALSE, isNil |-> FALSE, members |-> [error |-> "\"not found\""]]
      [] OTHER ->
            [err |-> FALSE, isNil |-> TRUE, members |-> <<>>]

\* json.Unmarshal(body, &prettyJSON) with prettyJSON a map[string]interface{}:
\* an error for text that is not JSON and for JSON that is not an object; the
\* literal null leaves the map nil; an object gives its members, whatever
\* the layout of the text.
Unmarshal(body) ==
    CASE body = "{\"score\":0.9}" ->
            [err |-> FALSE, isNil |-> FALSE, members |-> [score |-> "0.9"]]
      [] body = "{ \"score\" : 0.9,\t\"name\" : \"left-pad\" }" ->
            [err |-> FALSE, isNil |-> FALSE,
             members |-> [score |-> "0.9", name |-> "\"left-pad\""]]
      [] body = "{\"error\":\"not found\"}" ->
            [err |-> FALSE, isNil |-> FALSE, members |-> [error |-> "\"not found\""]]
      [] body = "null" ->
            [err |-> FALSE, isNil |-> TRUE, members |-> <<>>]
      [] OTHER ->
            [err |-> TRUE, isNil |-> TRUE, members |-> <<>>]

\* The keys a modelled report can hold, in the byte order encoding/json sorts by.
KeyOrder == <<"error", "name", "score">>

RECURSIVE IndentedMembers(_, _)
IndentedMembers(members, keys) ==
    IF Len(keys) = 0 THEN ""
    ELSE "  \"" \o keys[1] \o "\": " \o members[keys[1]]
         \o (IF Len(keys) = 1 THEN "\n" ELSE ",\n")
         \o IndentedMembers(members, Tail(keys))

\* json.MarshalIndent(prettyJSON, "", "  "): keys sorted, one member a line.
MarshalIndent(decoded) ==
    LET keys == SelectSeq(KeyOrder, LAMBDA k : k \in DOMAIN decoded.members)
    IN  IF decoded.isNil THEN "null"
        ELSE IF Len(keys) = 0 THEN "{}"
        ELSE "{\n" \o IndentedMembers(decoded.members, keys) \o "}"

\* A variant of ChatErrKind without the DeadlineExceeded test.
ChatErrKindUndistinguished(err) == "BackendError"

\* The error kind main reports for a failed Chat: err == context.DeadlineExceeded
\* is the timeout, anything else a backend failure.
ChatErrKind(err) ==
    IF err = "context.DeadlineExceeded" THEN "TimeoutError" ELSE "BackendError"

\* The message main logs for a failed Chat.
ChatErrMessage(err) ==
    IF err = "context.DeadlineExceeded"
    THEN "timeout while waiting for Ollama response"
    ELSE "failed to generate response: " \o err

\* A variant of DirectAnswerOutput that prints the label and not the content.
DirectAnswerOutputLabelOnly(content) ==
    << [fn |-> "Println",
        operands |-> <<"The model did not use tools. It generated the response on its own.">>],
       [fn |-> "Println", operands |-> <<"Content: ">>] >>

\* What the direct-answer branch prints: two fmt.Println calls.
DirectAnswerOutput(content) ==
    << [fn |-> "Println",
        operands |-> <<"The model did not use tools. It generated the response on its own.">>],
       [fn |-> "Println", operands |-> <<"Content: ", content>>] >>

\* A variant of FinalAnswer in which line 205 declares a new ollamaResponse
\* (:= for =), so that line 217 still reads the first turn's reply.
FinalAnswerOfFirstTurn(firstReply, toolReply, summaryReply) == firstReply.content

\* The text line 217 prints: ollamaResponse.Message.Content, where line 205
\* has assigned the third turn's response to ollamaResponse.
FinalAnswer(firstReply, toolReply, summaryReply) == summaryReply.content

\* What the tool path prints last: fmt.Printf("Response:\n%s\n", content).
FinalOutput(content) ==
    << [fn |-> "Printf", operands |-> <<"Response:\n%s\n", content>>] >>

-----------------------------------------------------------------------------
(* Cancellation scopes and the two external capabilities *)

NoScope == [state |-> "none", deadline |-> 0]

\* context.WithTimeout(context.Background(), 30*time.Second), for turn n.
WithTimeout(n) == [ctxs EXCEPT ![n] = [state |-> "live", deadline |-> now + Duration]]

\* Time left in a scope at this moment.
Remaining(scope) == IF scope.deadline > now THEN scope.deadline - now ELSE 0

\* The deferred cancel() calls, run when main returns.
RunDeferredCancels ==
    [n \in DOMAIN ctxs |->
        IF ctxs[n].state = "live" THEN [ctxs[n] EXCEPT !.state = "cancelled"] ELSE ctxs[n]]

\* A variant of ToolsOffered that hands the tools slice to every Chat call.
ToolsOfferedEveryTurn(turn) == <<trustyTool>>

\* The tools argument of each Chat call: the tools slice of lines 156-158 on
\* turn 1 (line 159), nil on turn 2 (line 119) and on turn 3 (line 205).
ToolsOffered(turn) == IF turn = 1 THEN <<trustyTool>> ELSE <<>>

\* The record of one backend.Chat(ctx, messages, tools) invocation.
ChatCall(turn, scope, msgs, tools) ==
    [turn |-> turn, messages |-> msgs, tools |-> tools, remaining |-> Remaining(scope)]

\* backend.Chat, as the program sees it return: while the scope has time left,
\* a reply or a backend failure; once the scope has expired, the context's
\* error.  A failed call returns no message.
ChatOutcomes(turn) ==
    IF now < ctxs[turn].deadline
    THEN { [err |-> "nil", message |-> m] :
             m \in (IF turn = 1 THEN FirstReplies ELSE LaterReplies) }
         \cup { [err |-> "connection refused", message |-> NoMessage] }
    ELSE { [err |-> "context.DeadlineExceeded", message |-> NoMessage] }

NoLookup == [state |-> "idle", since |-> 0]

NoResponse == [kind |-> "none", status |-> 0, body |-> ""]

\* What client.Do and io.ReadAll can hand back: a transport error, a response
\* whose body cannot be read to the end, or a status with a body.
LookupOutcomes ==
    { [kind |-> "transport error", status |-> 0, body |-> ""] }
    \cup { [kind |-> "read error", status |-> s, body |-> ""] : s \in Statuses }
    \cup { [kind |-> "response", status |-> s, body |-> b] : s \in Statuses, b \in Bodies }

\* A variant of TrustyReportResult that recovers locally: a failed lookup
\* yields an empty report and no error.
TrustyReportResultRecovering(r) ==
    IF r.kind = "transport error" THEN [err |-> "nil", report |-> ""]
    ELSE IF r.kind = "read error" THEN [err |-> "nil", report |-> ""]
    ELSE IF Unmarshal(r.body).err THEN [err |-> "nil", report |-> ""]
    ELSE [err |-> "nil", report |-> MarshalIndent(Unmarshal(r.body))]

\* A variant of ToolContext that starts the context over with the tool message.
ToolContextStartingOver(msgs, trustyReply) == << MessageOf("tool", trustyReply) >>

\* messages = append(messages, {"role": "tool", "content": trustyReply}), in
\* chatTrustyReport (lines 114-117).
ToolContext(msgs, trustyReply) == Append(msgs, MessageOf("tool", trustyReply))

\* A variant of SummaryContext that carries the tool turn's reply over as it
\* came, role and tool calls included.
SummaryContextKeepingReply(toolReply) ==
    << responseAsMap(toolReply), MessageOf("user", summaryInstruction) >>

\* The messages of lines 190-200: the tool turn's content as a user message,
\* then the summarization instruction, also as a user message.
SummaryContext(toolReply) ==
    << MessageOf("user", toolReply.content), MessageOf("user", summaryInstruction) >>

\* A variant of TrustyReportResult without the check of lines 57-59: a
\* transport error goes unnoticed and the report is empty.
TrustyReportResultUncheckedDo(r) ==
    IF r.kind = "transport error" THEN [err |-> "nil", report |-> ""]
    ELSE IF r.kind = "read error" THEN [err |-> "io.ReadAll", report |-> ""]
    ELSE IF Unmarshal(r.body).err THEN [err |-> "json.Unmarshal", report |-> ""]
    ELSE [err |-> "nil", report |-> MarshalIndent(Unmarshal(r.body))]

\* trustyReport from client.Do's return on: the error it returns, or the report.
TrustyReportResult(r) ==
    IF r.kind = "transport error" THEN [err |-> "client.Do", report |-> ""]
    ELSE IF r.kind = "read error" THEN [err |-> "io.ReadAll", report |-> ""]
    ELSE IF Unmarshal(r.body).err THEN [err |-> "json.Unmarshal", report |-> ""]
    ELSE [err |-> "nil", report |-> MarshalIndent(Unmarshal(r.body))]

\* log.Fatal / log.Fatalf: the entries so far are on standard error, the cause
\* is logged, and os.Exit(1) ends the process without running deferred calls.
Fatal(kind, entries) ==
    /\ pc' = "FAILED"
    /\ errKind' = kind
    /\ exitCode' = 1
    /\ logged' = logged \o entries

-----------------------------------------------------------------------------
(* The program *)

Init ==
    /\ pc = "INIT"
    /\ args \in UserPrompts
    /\ now = 0
    /\ ctxs = [n \in 1..3 |-> NoScope]
    /\ messages = <<>>
    /\ ctMessages = <<>>
    /\ sumMessages = <<>>
    /\ ollamaResponse = NoMessage
    /\ ollamaTrustyMessage = NoMessage
    /\ lookup = NoLookup
    /\ lookupResp = NoResponse
    /\ chatCalls = <<>>
    /\ chatReturns = <<>>
    /\ lookupCalls = <<>>
    /\ httpCalls = <<>>
    /\ stdout = <<>>
    /\ logged = <<>>
    /\ errKind = "none"
    /\ exitCode = -1

\* The turn whose Chat call is outstanding, 0 if none is.
TurnInFlight ==
    CASE pc = "AWAITING_FIRST_REPLY" -> 1
      [] pc = "AWAITING_TOOL_RESULT" -> 2
      [] pc = "AWAITING_SUMMARY_REPLY" -> 3
      [] OTHER -> 0

\* A variant of InspectsToolCalls in which the reply of every turn is looked
\* at for tool calls and dispatched like the first.
InspectsToolCallsEveryTurn(turn) == TRUE

\* The replies whose ToolCalls main reads: line 170 and lines 177-183 follow
\* the first Chat call only; chatTrustyReport returns the second reply's
\* message as it is (line 127) and line 217 prints the third reply's content.
InspectsToolCalls(turn) == turn = 1

\* main, lines 131-159: the first scope, the seeded conversation, turn 1.
StartTurn1 ==
    /\ pc = "INIT"
    /\ LET seeded == << MessageOf("user", Prompt(args)) >>
           scopes == WithTimeout(1)
       IN  /\ ctxs' = scopes
           /\ messages' = seeded
           /\ chatCalls' = Append(chatCalls, ChatCall(1, scopes[1], seeded, ToolsOffered(1)))
    /\ pc' = "AWAITING_FIRST_REPLY"
    /\ UNCHANGED <<args, now, ctMessages, sumMessages, ollamaResponse,
                   ollamaTrustyMessage, lookup, lookupResp, chatReturns,
                   lookupCalls, httpCalls, stdout, logged, errKind, exitCode>>

\* Turn 1 failed (lines 160-165).
Turn1Error ==
    /\ pc = "AWAITING_FIRST_REPLY"
    /\ \E o \in ChatOutcomes(1) :
        /\ o.err # "nil"
        /\ chatReturns' = Append(chatReturns, o)
        /\ ollamaResponse' = o.message
        /\ Fatal(ChatErrKind(o.err), <<ChatErrMessage(o.err)>>)
    /\ UNCHANGED <<args, now, ctxs, messages, ctMessages, sumMessages,
                   ollamaTrustyMessage, lookup, lookupResp, chatCalls,
                   lookupCalls, httpCalls, stdout>>

\* Turn 1 answered without a tool call (lines 168-174): print and return.
DirectAnswer ==
    /\ pc = "AWAITING_FIRST_REPLY"
    /\ \E o \in ChatOutcomes(1) :
        /\ o.err = "nil"
        /\ Len(o.message.tool_calls) = 0
        /\ chatReturns' = Append(chatReturns, o)
        /\ ollamaResponse' = o.message
        /\ messages' = Append(messages, responseAsMap(o.message))
        /\ stdout' = stdout \o DirectAnswerOutput(o.message.content)
    /\ ctxs' = RunDeferredCancels
    /\ exitCode' = 0
    /\ pc' = "DIRECT_ANSWER"
    /\ UNCHANGED <<args, now, ctMessages, sumMessages, ollamaTrustyMessage,
                   lookup, lookupResp, chatCalls, lookupCalls, httpCalls,
                   logged, errKind>>

\* Turn 1 asked for a tool other than trustyReport (lines 168-178, 213-215).
UnexpectedTool ==
    /\ TurnInFlight # 0
    /\ InspectsToolCalls(TurnInFlight)
    /\ \E o \in ChatOutcomes(TurnInFlight) :
        /\ o.err = "nil"
        /\ Len(o.message.tool_calls) # 0
        /\ ~IsRegistered(SelectedCall(o.message.tool_calls).function.name)
        /\ chatReturns' = Append(chatReturns, o)
        /\ ollamaResponse' = o.message
        /\ messages' = Append(messages, responseAsMap(o.message))
        /\ Fatal("UnexpectedToolError",
                 << "unexpected function call: "
                      \o SelectedCall(o.message.tool_calls).function.name >>)
    /\ UNCHANGED <<args, now, ctxs, ctMessages, sumMessages, ollamaTrustyMessage,
                   lookup, lookupResp, chatCalls, lookupCalls, httpCalls, stdout>>

\* A first-turn reply that sends main into the trustyReport branch (line 178).
TakesToolPath(o) ==
    /\ o.err = "nil"
    /\ Len(o.message.tool_calls) # 0
    /\ IsRegistered(SelectedCall(o.message.tool_calls).function.name)

\* Turn 1 asked for trustyReport, and chatTrustyReport found package_name or
\* ecosystem missing or not a string (lines 168-183, 100-107).
ArgumentFailure ==
    /\ TurnInFlight # 0
    /\ InspectsToolCalls(TurnInFlight)
    /\ \E o \in ChatOutcomes(TurnInFlight) :
        LET call == SelectedCall(o.message.tool_calls).function
            pkgName == AssertString(call.arguments, "package_name")
            ecoSystem == AssertString(call.arguments, "ecosystem")
        IN  /\ TakesToolPath(o)
            /\ ~pkgName.ok \/ ~ecoSystem.ok
            /\ chatReturns' = Append(chatReturns, o)
            /\ ollamaResponse' = o.message
            /\ messages' = Append(messages, responseAsMap(o.message))
            /\ Fatal("ArgumentError",
                     << "Handling trustyReport function call",
                        IF ~pkgName.ok
                        THEN "failed to get package name from Ollama response"
                        ELSE "failed to get ecosystem from Ollama response" >>)
    /\ ctxs' = WithTimeout(2)
    /\ UNCHANGED <<args, now, ctMessages, sumMessages, ollamaTrustyMessage,
                   lookup, lookupResp, chatCalls, lookupCalls, httpCalls, stdout>>

\* Turn 1 asked for trustyReport with string arguments, and trustyReport could
\* not build the request (lines 168-183, 100-112, 43-49).
RequestFailure ==
    /\ TurnInFlight # 0
    /\ InspectsToolCalls(TurnInFlight)
    /\ \E o \in ChatOutcomes(TurnInFlight) :
        LET call == SelectedCall(o.message.tool_calls).function
            pkgName == AssertString(call.arguments, "package_name")
            ecoSystem == AssertString(call.arguments, "ecosystem")
        IN  /\ TakesToolPath(o)
            /\ pkgName.ok /\ ecoSystem.ok
            /\ NewRequestFails(pkgName.val, ecoSystem.val)
            /\ chatReturns' = Append(chatReturns, o)
            /\ ollamaResponse' = o.message
            /\ messages' = Append(messages, responseAsMap(o.message))
            /\ lookupCalls' = Append(lookupCalls,
                   [packageName |-> pkgName.val, ecosystem |-> ecoSystem.val])
            /\ Fatal("LookupError",
                     << "Handling trustyReport function call",
                        "failed to get trusty report: http.NewRequest" >>)
    /\ ctxs' = WithTimeout(2)
    /\ UNCHANGED <<args, now, ctMessages, sumMessages, ollamaTrustyMessage,
                   lookup, lookupResp, chatCalls, httpCalls, stdout>>

\* Turn 1 asked for trustyReport with string arguments: the second scope is
\* opened and the request goes out (lines 168-183, 100-109, 43-56).  The
\* endpoint will answer, or stay silent for good.
IssueLookup ==
    /\ TurnInFlight # 0
    /\ InspectsToolCalls(TurnInFlight)
    /\ \E o \in ChatOutcomes(TurnInFlight) :
        LET call == SelectedCall(o.message.tool_calls).function
            pkgName == AssertString(call.arguments, "package_name")
            ecoSystem == AssertString(call.arguments, "ecosystem")
        IN  /\ TakesToolPath(o)
            /\ pkgName.ok /\ ecoSystem.ok
            /\ ~NewRequestFails(pkgName.val, ecoSystem.val)
            /\ chatReturns' = Append(chatReturns, o)
            /\ ollamaResponse' = o.message
            /\ messages' = Append(messages, responseAsMap(o.message))
            /\ lookupCalls' = Append(lookupCalls,
                   [packageName |-> pkgName.val, ecosystem |-> ecoSystem.val])
            /\ httpCalls' = Append(httpCalls,
                   [method |-> "GET", url |-> ReportURL(pkgName.val, ecoSystem.val),
                    accept |-> "application/json"])
    /\ \E answers \in {"pending", "silent"} :
        lookup' = [state |-> answers, since |-> now]
    /\ ctxs' = WithTimeout(2)
    /\ logged' = Append(logged, "Handling trustyReport function call")
    /\ pc' = "TOOL_REQUESTED"
    /\ UNCHANGED <<args, now, ctMessages, sumMessages, ollamaTrustyMessage,
                   lookupResp, chatCalls, stdout, errKind, exitCode>>

\* client.Do returned and trustyReport failed (lines 56-73, 109-112).
LookupFailure ==
    /\ pc = "TOOL_REQUESTED"
    /\ lookup.state = "pending"
    /\ \E r \in LookupOutcomes :
        /\ TrustyReportResult(r).err # "nil"
        /\ lookupResp' = r
        /\ Fatal("LookupError",
                 <<"failed to get trusty report: " \o TrustyReportResult(r).err>>)
    /\ lookup' = NoLookup
    /\ UNCHANGED <<args, now, ctxs, messages, ctMessages, sumMessages,
                   ollamaResponse, ollamaTrustyMessage, chatCalls, chatReturns,
                   lookupCalls, httpCalls, stdout>>

\* client.Do returned and trustyReport produced a report: the tool message is
\* appended and turn 2 is issued under the second scope (lines 56-82, 109-119).
LookupSuccess ==
    /\ pc = "TOOL_REQUESTED"
    /\ lookup.state = "pending"
    /\ \E r \in LookupOutcomes :
        LET trustyReply == TrustyReportResult(r)
            context == ToolContext(messages, trustyReply.report)
        IN  /\ trustyReply.err = "nil"
            /\ lookupResp' = r
            /\ ctMessages' = context
            /\ chatCalls' = Append(chatCalls, ChatCall(2, ctxs[2], context, ToolsOffered(2)))
    /\ lookup' = NoLookup
    /\ pc' = "AWAITING_TOOL_RESULT"
    /\ UNCHANGED <<args, now, ctxs, messages, sumMessages, ollamaResponse,
                   ollamaTrustyMessage, chatReturns, lookupCalls, httpCalls,
                   stdout, logged, errKind, exitCode>>

\* Turn 2 failed (lines 119-125).
Turn2Error ==
    /\ pc = "AWAITING_TOOL_RESULT"
    /\ \E o \in ChatOutcomes(2) :
        /\ o.err # "nil"
        /\ chatReturns' = Append(chatReturns, o)
        /\ Fatal(ChatErrKind(o.err), <<ChatErrMessage(o.err)>>)
    /\ UNCHANGED <<args, now, ctxs, messages, ctMessages, sumMessages,
                   ollamaResponse, ollamaTrustyMessage, lookup, lookupResp,
                   chatCalls, lookupCalls, httpCalls, stdout>>

\* Turn 2 replied: a fresh two-message exchange, the third scope, turn 3
\* (lines 127, 183-205).
Turn2Reply ==
    /\ pc = "AWAITING_TOOL_RESULT"
    /\ \E o \in ChatOutcomes(2) :
        LET fresh == SummaryContext(o.message)
            scopes == WithTimeout(3)
        IN  /\ o.err = "nil"
            /\ InspectsToolCalls(2) => Len(o.message.tool_calls) = 0
            /\ chatReturns' = Append(chatReturns, o)
            /\ ollamaTrustyMessage' = o.message
            /\ sumMessages' = fresh
            /\ ctxs' = scopes
            /\ chatCalls' = Append(chatCalls, ChatCall(3, scopes[3], fresh, ToolsOffered(3)))
    /\ logged' = Append(logged, "Handling trustyReport response")
    /\ pc' = "AWAITING_SUMMARY_REPLY"
    /\ UNCHANGED <<args, now, messages, ctMessages, ollamaResponse, lookup,
                   lookupResp, lookupCalls, httpCalls, stdout, errKind, exitCode>>

\* Turn 3 failed (lines 205-211).
Turn3Error ==
    /\ pc = "AWAITING_SUMMARY_REPLY"
    /\ \E o \in ChatOutcomes(3) :
        /\ o.err # "nil"
        /\ chatReturns' = Append(chatReturns, o)
        /\ ollamaResponse' = o.message
        /\ Fatal(ChatErrKind(o.err), <<ChatErrMessage(o.err)>>)
    /\ UNCHANGED <<args, now, ctxs, messages, ctMessages, sumMessages,
                   ollamaTrustyMessage, lookup, lookupResp, chatCalls,
                   lookupCalls, httpCalls, stdout>>

\* Turn 3 replied: print its content and return (lines 205-217).
Turn3Reply ==
    /\ pc = "AWAITING_SUMMARY_REPLY"
    /\ \E o \in ChatOutcomes(3) :
        /\ o.err = "nil"
        /\ InspectsToolCalls(3) => Len(o.message.tool_calls) = 0
        /\ chatReturns' = Append(chatReturns, o)
        /\ ollamaResponse' = o.message
        /\ stdout' = stdout \o FinalOutput(FinalAnswer(ollamaResponse, ollamaTrustyMessage, o.message))
    /\ ctxs' = RunDeferredCancels
    /\ exitCode' = 0
    /\ pc' = "DONE"
    /\ UNCHANGED <<args, now, messages, ctMessages, sumMessages,
                   ollamaTrustyMessage, lookup, lookupResp, chatCalls,
                   lookupCalls, httpCalls, logged, errKind>>

\* Time passes while the program is blocked in a call: in Chat until its scope
\* expires, in client.Do for as long as the lookup is followed.
Tick ==
    /\ \/ TurnInFlight # 0 /\ now < ctxs[TurnInFlight].deadline
       \/ pc = "TOOL_REQUESTED" /\ now - lookup.since < MaxLookupTime
    /\ now' = now + TickStep
    /\ UNCHANGED <<pc, args, ctxs, messages, ctMessages, sumMessages,
                   ollamaResponse, ollamaTrustyMessage, lookup, lookupResp,
                   chatCalls, chatReturns, lookupCalls, httpCalls,
                   stdout, logged, errKind, exitCode>>

Next ==
    \/ StartTurn1
    \/ Turn1Error
    \/ DirectAnswer
    \/ UnexpectedTool
    \/ ArgumentFailure
    \/ RequestFailure
    \/ IssueLookup
    \/ LookupFailure
    \/ LookupSuccess
    \/ Turn2Error
    \/ Turn2Reply
    \/ Turn3Error
    \/ Turn3Reply
    \/ Tick

Spec == Init /\ [][Next]_vars

\* The scheduler runs the program whenever it can take a step, and the clock
\* does not stop while a call is outstanding.
FairSpec == Spec /\ WF_vars(Next)

-----------------------------------------------------------------------------
(* Vocabulary of the properties, read off the histories *)

\* Turn n has returned, with a reply.
Replied(n) == Len(chatReturns) >= n /\ chatReturns[n].err = "nil"

\* Turn n has returned, with the error err.
FailedWith(n, err) == Len(chatReturns) >= n /\ chatReturns[n].err = err

\* The first tool call of the first-turn reply.
FirstCall == chatReturns[1].message.tool_calls[1].function

RepliedWithCalls == Replied(1) /\ Len(chatReturns[1].message.tool_calls) > 0

\* A tool call's arguments hold key, as a string.
HasString(arguments, key) == key \in DOMAIN arguments /\ arguments[key].type = "string"

WellTyped(arguments) == HasString(arguments, "package_name") /\ HasString(arguments, "ecosystem")

\* The text the program printed as its answer: the last operand of its last print.
PrintedAnswer ==
    LET last == stdout[Len(stdout)] IN last.operands[Len(last.operands)]

\* Model turns issued after turn n.
TurnsAfter(n) == Len(chatCalls) - n

\* A tool-role message is part of some context the program built.
ToolMessageAppended ==
    \E i \in DOMAIN ctMessages : ctMessages[i].role = "tool"

-----------------------------------------------------------------------------
(* C1 *)

\* C1: whenever the first-turn reply carries no tool call, the run is in
\* DIRECT_ANSWER with exit status 0, the answer it printed is that reply's
\* content, character for character, and neither a lookup nor a second or
\* third model turn has been issued.
C1_DirectAnswerVerbatim ==
    (Replied(1) /\ Len(chatReturns[1].message.tool_calls) = 0) =>
        /\ pc = "DIRECT_ANSWER"
        /\ exitCode = 0
        /\ stdout # <<>>
        /\ PrintedAnswer = chatReturns[1].message.content
        /\ TurnsAfter(1) = 0
        /\ lookupCalls = <<>>
        /\ httpCalls = <<>>

C1_Witness ==
    /\ pc = "DIRECT_ANSWER"
    /\ Replied(1)
    /\ chatReturns[1].message.content = "use left-pad"
    /\ PrintedAnswer = "use left-pad"
    /\ now > 0

(* C2 *)

\* C2: whenever the first-turn reply's first tool call names trustyReport and
\* carries package_name and ecosystem as strings, trustyReport has been
\* invoked exactly once, with exactly those two values; and in no state has
\* the lookup been invoked, or a request been sent, more than once.
C2_LookupOnceWithCallArguments ==
    /\ Len(lookupCalls) <= 1
    /\ Len(httpCalls) <= 1
    /\ (RepliedWithCalls /\ FirstCall.name = "trustyReport" /\ WellTyped(FirstCall.arguments)) =>
          lookupCalls = << [packageName |-> FirstCall.arguments["package_name"].val,
                            ecosystem |-> FirstCall.arguments["ecosystem"].val] >>

C2_Witness ==
    /\ pc = "DONE"
    /\ Len(chatReturns[1].message.tool_calls) = 2
    /\ lookupCalls = << [packageName |-> "left-pad", ecosystem |-> "npm"] >>
    /\ Len(httpCalls) = 1

(* C3 *)

\* C3: whenever the first-turn reply's first tool call names a tool other
\* than trustyReport, the run is in FAILED with UnexpectedToolError, no model
\* turn has been issued after the first, and the lookup was never invoked
\* nor any request sent to the report endpoint.
C3_UnregisteredToolFails ==
    (RepliedWithCalls /\ FirstCall.name # "trustyReport") =>
        /\ pc = "FAILED"
        /\ errKind = "UnexpectedToolError"
        /\ exitCode = 1
        /\ TurnsAfter(1) = 0
        /\ lookupCalls = <<>>
        /\ httpCalls = <<>>

C3_Witness ==
    /\ RepliedWithCalls
    /\ FirstCall.name = "otherTool"
    /\ Len(chatReturns[1].message.tool_calls) = 2
    /\ chatReturns[1].message.tool_calls[2].function.name = "trustyReport"
    /\ errKind = "UnexpectedToolError"

(* C4 *)

\* Bodies that are not JSON text.
MalformedBodies == {"<html>Bad Gateway</html>"}

\* C4: whenever the report endpoint answered with a body that is not JSON,
\* the run is in FAILED with LookupError, no tool message was appended and
\* neither turn 2 nor turn 3 has been issued.
C4_MalformedLookupFails ==
    (lookupResp.kind = "response" /\ lookupResp.body \in MalformedBodies) =>
        /\ pc = "FAILED"
        /\ errKind = "LookupError"
        /\ exitCode = 1
        /\ ~ToolMessageAppended
        /\ TurnsAfter(1) = 0

C4_Witness ==
    /\ lookupResp.kind = "response"
    /\ lookupResp.status = 200
    /\ lookupResp.body = "<html>Bad Gateway</html>"
    /\ errKind = "LookupError"

(* C5 *)

\* The lookup call ended in a transport failure or a non-2xx response.
LookupEndedBadly ==
    \/ lookupResp.kind = "transport error"
    \/ lookupResp.kind \in {"response", "read error"} /\ lookupResp.status \notin 200..299

\* C5: whenever the lookup call ended in a transport failure or a non-2xx
\* response, whatever its body, the run is in FAILED with LookupError, no
\* tool message was appended and turn 2 has not been issued.
C5_NonSuccessLookupFails ==
    LookupEndedBadly =>
        /\ pc = "FAILED"
        /\ errKind = "LookupError"
        /\ ~ToolMessageAppended
        /\ TurnsAfter(1) = 0

(* C6 *)

\* C6: whenever the first-turn reply's first tool call names trustyReport but
\* lacks package_name or ecosystem, or carries either as something other than
\* a string, the run is in FAILED with ArgumentError, the lookup was never
\* invoked, no request was sent, and no further model turn (no second
\* attempt of the first, no turn 2) has been issued.
C6_BadArgumentsFail ==
    (RepliedWithCalls /\ FirstCall.name = "trustyReport" /\ ~WellTyped(FirstCall.arguments)) =>
        /\ pc = "FAILED"
        /\ errKind = "ArgumentError"
        /\ exitCode = 1
        /\ lookupCalls = <<>>
        /\ httpCalls = <<>>
        /\ TurnsAfter(1) = 0

C6_Witness ==
    /\ RepliedWithCalls
    /\ FirstCall.name = "trustyReport"
    /\ "ecosystem" \in DOMAIN FirstCall.arguments
    /\ FirstCall.arguments["ecosystem"].type = "bool"
    /\ errKind = "ArgumentError"

(* C7 *)

\* C7: every model turn is issued with the whole fixed duration left in its
\* scope, whatever time passed before it; and once turn 2 has run into its
\* bound, the reply turn 1 returned is still what main holds.
C7_TurnsIndependentlyBounded ==
    /\ \A i \in DOMAIN chatCalls : chatCalls[i].remaining = Duration
    /\ FailedWith(2, "context.DeadlineExceeded") =>
          /\ Replied(1)
          /\ ollamaResponse = chatReturns[1].message

(* C8 *)

Aborted == pc = "FAILED" /\ exitCode = 1 /\ stdout = <<>>

\* Bodies json.Unmarshal can decode into a map.
DecodableBodies == { "{\"score\":0.9}",
                     "{ \"score\" : 0.9,\t\"name\" : \"left-pad\" }",
                     "{\"error\":\"not found\"}",
                     "null" }

\* The lookup has returned an error to its caller.
LookupReturnedError ==
    \/ lookupResp.kind \in {"transport error", "read error"}
    \/ lookupResp.kind = "response" /\ lookupResp.body \notin DecodableBodies

\* C9: no local recovery.  Whenever a Chat call has returned an error, the
\* lookup has returned an error, the first tool call named an unregistered
\* tool or carried ill-typed arguments, or any error kind has been recorded,
\* the run is aborted (FAILED, exit status 1, nothing on standard output)
\* with the matching error kind, and no model turn and no lookup has been
\* issued after the failing step; FAILED is entered for an error only.
C9_NoLocalRecovery ==
    /\ \A n \in 1..3 :
          (Len(chatReturns) >= n /\ chatReturns[n].err # "nil") =>
              /\ Aborted
              /\ errKind \in {"TimeoutError", "BackendError"}
              /\ TurnsAfter(n) = 0
              /\ n = 1 => (lookupCalls = <<>> /\ httpCalls = <<>>)
    /\ LookupReturnedError =>
          (Aborted /\ errKind = "LookupError" /\ TurnsAfter(1) = 0 /\ Len(httpCalls) = 1)
    /\ (RepliedWithCalls /\ FirstCall.name # "trustyReport") =>
          (Aborted /\ errKind = "UnexpectedToolError" /\ TurnsAfter(1) = 0 /\ lookupCalls = <<>>)
    /\ (RepliedWithCalls /\ FirstCall.name = "trustyReport" /\ ~WellTyped(FirstCall.arguments)) =>
          (Aborted /\ errKind = "ArgumentError" /\ TurnsAfter(1) = 0 /\ lookupCalls = <<>>)
    /\ errKind # "none" => (Aborted /\ Len(lookupCalls) <= 1 /\ Len(httpCalls) <= 1)
    /\ pc = "FAILED" => errKind # "none"

C9_Witness ==
    /\ Len(chatReturns) = 2
    /\ chatReturns[2].err = "connection refused"
    /\ errKind = "BackendError"
    /\ Aborted

(* C10 *)

\* C10: every run eventually reaches DIRECT_ANSWER, DONE or FAILED; and a run
\* whose lookup endpoint never responds eventually reaches FAILED with
\* TimeoutError or LookupError, exit status 1 and nothing on standard output.
C10_RunTerminates ==
    /\ <>(pc \in Terminal)
    /\ (pc = "TOOL_REQUESTED" /\ lookup.state = "silent")
          ~> (Aborted /\ errKind \in {"TimeoutError", "LookupError"})

(* C11 *)

\* C11: whenever all three model turns have replied, the run is in DONE with
\* exit status 0 after exactly three model turns and one lookup (one request),
\* and the one thing on standard output is the third turn's reply content;
\* DONE is reached in no other way.
C11_SummaryIsFinalAnswer ==
    /\ Replied(3) =>
          /\ pc = "DONE"
          /\ exitCode = 0
          /\ Len(chatCalls) = 3
          /\ Len(chatReturns) = 3
          /\ Len(lookupCalls) = 1
          /\ Len(httpCalls) = 1
          /\ Len(stdout) = 1
          /\ PrintedAnswer = chatReturns[3].message.content
    /\ pc = "DONE" => (Replied(1) /\ Replied(2) /\ Replied(3))

C11_Witness ==
    /\ pc = "DONE"
    /\ chatReturns[1].message.content = "looks fine"
    /\ chatReturns[2].message.content = "looks fine"
    /\ chatReturns[3].message.content = "use left-pad"
    /\ PrintedAnswer = "use left-pad"

(* C12 *)

\* What a reply carrying only the given tool call leads to, right after the
\* first turn: an unexpected tool, bad arguments, or the lookup.
CallClass(call) ==
    IF call.name # "trustyReport" THEN "unexpected"
    ELSE IF ~WellTyped(call.arguments) THEN "arguments"
    ELSE "lookup"

\* C12: whenever the first-turn reply carries tool calls, however many, the
\* run is what its first call alone makes it: an unregistered first call fails
\* with UnexpectedToolError and ill-typed first arguments with ArgumentError,
\* both without a lookup or a further turn; otherwise the one lookup carries
\* the first call's arguments and the run fails for neither of these two
\* reasons.  No lookup is ever made with the arguments of a later call.
C12_OnlyFirstCallActedUpon ==
    RepliedWithCalls =>
        /\ CallClass(FirstCall) = "unexpected" =>
              (Aborted /\ errKind = "UnexpectedToolError" /\ TurnsAfter(1) = 0
                 /\ lookupCalls = <<>> /\ httpCalls = <<>>)
        /\ CallClass(FirstCall) = "arguments" =>
              (Aborted /\ errKind = "ArgumentError" /\ TurnsAfter(1) = 0
                 /\ lookupCalls = <<>> /\ httpCalls = <<>>)
        /\ CallClass(FirstCall) = "lookup" =>
              /\ Len(lookupCalls) = 1
              /\ errKind \notin {"UnexpectedToolError", "ArgumentError"}
        /\ \A i \in DOMAIN lookupCalls :
              /\ WellTyped(FirstCall.arguments)
              /\ lookupCalls[i].packageName = FirstCall.arguments["package_name"].val
              /\ lookupCalls[i].ecosystem = FirstCall.arguments["ecosystem"].val

C12_Witness ==
    /\ pc = "DONE"
    /\ Len(chatReturns[1].message.tool_calls) = 2
    /\ CallClass(FirstCall) = "lookup"
    /\ CallClass(chatReturns[1].message.tool_calls[2].function) = "unexpected"
    /\ lookupCalls = << [packageName |-> "left-pad", ecosystem |-> "npm"] >>

(* C13 *)

\* C13: every Chat call of turn 1 is issued with exactly the trustyReport
\* descriptor as its tools, and every Chat call of turn 2 or 3 with none.
C13_ToolsOnFirstTurnOnly ==
    /\ pc # "INIT" => Len(chatCalls) >= 1
    /\ \A i \in DOMAIN chatCalls :
          /\ chatCalls[i].turn = i
          /\ i = 1 =>
                /\ Len(chatCalls[i].tools) = 1
                /\ chatCalls[i].tools[1].function.name = "trustyReport"
                /\ chatCalls[i].tools[1].function.required = <<"package_name", "ecosystem">>
          /\ i > 1 => chatCalls[i].tools = <<>>

C13_Witness ==
    /\ pc = "DONE"
    /\ Len(chatCalls) = 3
    /\ Len(chatCalls[1].tools) = 1
    /\ chatCalls[2].tools = <<>>
    /\ chatCalls[3].tools = <<>>

(* C14 *)

\* The indented text of each decodable body: keys in byte order, one member a
\* line, two spaces of indentation.
ExpectedReport(body) ==
    CASE body = "{\"score\":0.9}" -> "{\n  \"score\": 0.9\n}"
      [] body = "{ \"score\" : 0.9,\t\"name\" : \"left-pad\" }" ->
            "{\n  \"name\": \"left-pad\",\n  \"score\": 0.9\n}"
      [] body = "{\"error\":\"not found\"}" -> "{\n  \"error\": \"not found\"\n}"
      [] body = "null" -> "null"
      [] OTHER -> "?"

\* C14: whenever turn 2 has been issued, the lookup has returned a decodable
\* body before, and the context turn 2 was given is exactly, in this order:
\* the seeded user message (prefix, a space, the query words joined by
\* spaces), the first-turn reply with its role, content and all its tool
\* calls, and one tool message whose content is the indented report.
C14_SecondTurnContext ==
    Len(chatCalls) >= 2 =>
        /\ Replied(1)
        /\ Len(lookupCalls) = 1
        /\ lookupResp.kind = "response"
        /\ lookupResp.body \in DecodableBodies
        /\ chatCalls[2].turn = 2
        /\ chatCalls[2].messages =
              << [role |-> "user",
                  content |-> promptBase \o " " \o Join(args, " "),
                  tool_calls |-> <<>>],
                 [role |-> "assistant",
                  content |-> chatReturns[1].message.content,
                  tool_calls |-> chatReturns[1].message.tool_calls],
                 [role |-> "tool",
                  content |-> ExpectedReport(lookupResp.body),
                  tool_calls |-> <<>>] >>

C14_Witness ==
    /\ pc = "AWAITING_TOOL_RESULT"
    /\ args = <<"is", "left-pad", "safe">>
    /\ Len(chatReturns[1].message.tool_calls) = 2
    /\ lookupResp.body = "{ \"score\" : 0.9,\t\"name\" : \"left-pad\" }"
    /\ chatCalls[2].messages[3].content = "{\n  \"name\": \"left-pad\",\n  \"score\": 0.9\n}"

(* C15 *)

\* C15: whenever turn 3 has been issued, its context is exactly two messages,
\* in this order: a user message whose content is the content of turn 2's
\* reply, and the fixed summarization instruction; no message of it is the
\* original prompt, carries a tool call, or has the assistant or tool role.
C15_ThirdTurnContextIsFresh ==
    Len(chatCalls) >= 3 =>
        /\ Replied(2)
        /\ chatCalls[3].turn = 3
        /\ chatCalls[3].messages =
              << [role |-> "user", content |-> chatReturns[2].message.content,
                  tool_calls |-> <<>>],
                 [role |-> "user", content |-> summaryInstruction, tool_calls |-> <<>>] >>
        /\ \A i \in DOMAIN chatCalls[3].messages :
              /\ chatCalls[3].messages[i].role \notin {"assistant", "tool"}
              /\ chatCalls[3].messages[i].tool_calls = <<>>
              /\ chatCalls[3].messages[i] # chatCalls[1].messages[1]
              /\ \A j \in DOMAIN chatCalls[2].messages :
                    chatCalls[3].messages[i] # chatCalls[2].messages[j]

C15_Witness ==
    /\ pc = "AWAITING_SUMMARY_REPLY"
    /\ Len(chatReturns[2].message.tool_calls) = 1
    /\ chatReturns[2].message.content = "use left-pad"
    /\ chatCalls[3].messages[1].content = "use left-pad"
    /\ Len(chatCalls[3].messages) = 2

(* C16 *)

IsPrefix(a, b) == Len(a) <= Len(b) /\ SubSeq(b, 1, Len(a)) = a

\* The sequence the name `messages` stands for where the program is: main's
\* slice, then chatTrustyReport's extended copy of it, then the slice that
\* line 190 declares.
Conversation ==
    IF sumMessages # <<>> THEN sumMessages
    ELSE IF ctMessages # <<>> THEN ctMessages
    ELSE messages

\* The lookup has produced a tool result.
ToolResultProduced == lookupResp.kind = "response" /\ lookupResp.body \in DecodableBodies

HoldsToolResult(msgs) ==
    \E i \in DOMAIN msgs :
        msgs[i].role = "tool" /\ msgs[i].content = ExpectedReport(lookupResp.body)

\* C16 (as claimed): across every step the conversation sequence extends what
\* it was before, and the tool result, once produced, is a member of it.
C16_ConversationAppendOnly ==
    /\ [][IsPrefix(Conversation, Conversation')]_vars
    /\ [](ToolResultProduced => HoldsToolResult(Conversation))

\* The step that issues turn 3.
StartsSummary == pc = "AWAITING_TOOL_RESULT" /\ pc' = "AWAITING_SUMMARY_REPLY"

\* C16 (amended): each of the program's message sequences only grows (main's
\* slice by appends, the other two not at all once built); the context of
\* turn 2 is main's slice plus one tool message, and holds the tool result
\* from the moment it is produced; across every step but the one that issues
\* turn 3 the conversation sequence extends what it was before; that step
\* replaces it by a sequence of two messages without the tool result.
C16_AppendOnlyUntilSummary ==
    /\ [][/\ IsPrefix(messages, messages')
          /\ ctMessages # <<>> => ctMessages' = ctMessages
          /\ sumMessages # <<>> => sumMessages' = sumMessages
          /\ ~StartsSummary => IsPrefix(Conversation, Conversation')
          /\ StartsSummary => (Len(Conversation') = 2 /\ ~IsPrefix(Conversation, Conversation'))]_vars
    /\ [](ToolResultProduced =>
            /\ Len(ctMessages) = Len(messages) + 1
            /\ IsPrefix(messages, ctMessages)
            /\ HoldsToolResult(ctMessages)
            /\ ~HoldsToolResult(messages)
            /\ ~HoldsToolResult(sumMessages))

C16_Witness ==
    /\ pc = "AWAITING_SUMMARY_REPLY"
    /\ Len(messages) = 2
    /\ Len(ctMessages) = 3
    /\ HoldsToolResult(ctMessages)
    /\ Conversation = sumMessages
    /\ Len(sumMessages) = 2

(* C17 *)

\* Chat calls issued and not yet returned.
OutstandingChats == Len(chatCalls) - Len(chatReturns)

\* Requests handed to client.Do and not yet returned.
OutstandingLookups == Len(httpCalls) - (IF lookupResp.kind = "none" THEN 0 ELSE 1)

\* C17: at every moment at most one external call is outstanding; the Chat
\* calls are turn 1, turn 2, turn 3 in this order, at most one of each; the
\* request of the lookup goes out only after turn 1 has replied, turn 2 only
\* after the lookup has returned a report, and turn 3 only after turn 2 has
\* replied.
C17_StrictlySequential ==
    /\ OutstandingChats \in {0, 1}
    /\ OutstandingLookups \in {0, 1}
    /\ OutstandingChats + OutstandingLookups <= 1
    /\ Len(chatCalls) <= 3
    /\ \A i \in DOMAIN chatCalls : chatCalls[i].turn = i
    /\ httpCalls # <<>> => (Replied(1) /\ Len(httpCalls) = 1)
    /\ OutstandingLookups = 1 => (pc = "TOOL_REQUESTED" /\ Len(chatCalls) = 1)
    /\ Len(chatCalls) >= 2 =>
          (Replied(1) /\ Len(httpCalls) = 1 /\ OutstandingLookups = 0 /\ ToolResultProduced)
    /\ Len(chatCalls) >= 3 => Replied(2)

C17_Witness ==
    /\ pc = "AWAITING_SUMMARY_REPLY"
    /\ OutstandingChats = 1
    /\ OutstandingLookups = 0
    /\ Len(chatCalls) = 3
    /\ now > 0

(* C18 *)

\* Scope n still holds its resources: it was created, its cancel function has
\* not been called, its deadline has not passed, and the process is running.
ScopeLive(n) ==
    /\ ctxs[n].state = "live"
    /\ now < ctxs[n].deadline
    /\ exitCode = -1

\* C18: while the lookup or turn 2 is in progress the scope of turn 1 is not
\* live, while turn 3 is in progress neither the scope of turn 1 nor that of
\* turn 2 is, and once the run is in FAILED no scope is.
C18_ScopesReleasedOnTurnExit ==
    /\ pc \in {"TOOL_REQUESTED", "AWAITING_TOOL_RESULT"} => ~ScopeLive(1)
    /\ pc = "AWAITING_SUMMARY_REPLY" => (~ScopeLive(1) /\ ~ScopeLive(2))
    /\ pc = "FAILED" => \A n \in 1..3 : ~ScopeLive(n)

(* C19 *)

\* C19: whenever turn 2 has been issued, its Chat call started with the whole
\* fixed duration left in its scope, however long the lookup took.
C19_SecondTurnHasFullBudget ==
    \A i \in DOMAIN chatCalls :
        chatCalls[i].turn = 2 => chatCalls[i].remaining = Duration

(* C20 *)

\* Turn n has replied, and its reply carries tool calls.
RepliedWithToolCalls(n) == Replied(n) /\ Len(chatReturns[n].message.tool_calls) > 0

\* C20: no run issues more than three model turns or more than one lookup
\* (one request); a reply to turn 2 that carries tool calls leads to turn 3
\* and nothing else, and a reply to turn 3 that carries tool calls ends the
\* run in DONE, with the lookup still the one of the first reply.
C20_OnlyFirstReplyInspected ==
    /\ Len(chatCalls) <= 3
    /\ Len(chatReturns) <= 3
    /\ Len(lookupCalls) <= 1
    /\ Len(httpCalls) <= 1
    /\ RepliedWithToolCalls(2) =>
          /\ pc \in {"AWAITING_SUMMARY_REPLY", "DONE", "FAILED"}
          /\ Len(chatCalls) = 3
          /\ Len(lookupCalls) = 1
          /\ lookupCalls[1].packageName = FirstCall.arguments["package_name"].val
    /\ RepliedWithToolCalls(3) =>
          /\ pc = "DONE"
          /\ Len(chatCalls) = 3
          /\ Len(lookupCalls) = 1
          /\ PrintedAnswer = chatReturns[3].message.content

C20_Witness ==
    /\ pc = "DONE"
    /\ RepliedWithToolCalls(2)
    /\ RepliedWithToolCalls(3)
    /\ Len(chatCalls) = 3
    /\ Len(lookupCalls) = 1

====
